---- MODULE Spec2Model ----
(***************************************************************************)
(* examples/rent_machine.py: the rental workflow rent_machine().           *)
(*                                                                         *)
(* One run of the script: search the marketplace, take the first offer,    *)
(* create an instance on it, poll its status, print the manual cleanup     *)
(* instructions; any Exception ends in the handler of lines 258-269.       *)
(*                                                                         *)
(* The marketplace (the functions imported from vast: apiurl, http_get,    *)
(* http_put, apiheaders) is the environment.  Its answer to the search is  *)
(* chosen when the search is made; its answer to the creation request      *)
(* (ask) and its status script (plan) are fixed when the run starts.       *)
(*                                                                         *)
(* MockArgs.__getattr__ (line 68) looks every missing attribute up in the  *)
(* module-level dict config["instance_config"] at the time of the lookup,  *)
(* so the keys of that dict are state of the run (instance_config).  Spec  *)
(* is rent_machine() for the dict as written and for the dict with the     *)
(* keys label and extra added; SpecShipped is the script as written.       *)
(*                                                                         *)
(* Python values: None is the integer NoneVal (-1); a dict without a key   *)
(* carries NoneVal (or "" for a string) in that field.                     *)
(***************************************************************************)
EXTENDS Integers, Sequences, FiniteSets, TLC

\* ---------------------------------------------------------------- bounds
MaxOffers == 2                      \* longest offer list the search returns

\* ------------------------------------------------------ program constants
max_attempts == 20                  \* line 194
NoneVal == -1                       \* Python None / missing key (integers)

OfferIds == {10, 11}
InstanceIds == {555, 556}
IdleStatuses == {"loading", "stopped", "error", "unknown"}
    \* "unknown": the response has no actual_status field (default of l.202)

\* config["instance_config"] as written, lines 33-39: its keys
ShippedInstanceConfig == {"image", "disk", "jupyter", "env", "onstart_cmd"}
\* the same dict after a caller of the module added the two keys
ExtendedInstanceConfig == ShippedInstanceConfig \cup {"label", "extra"}

\* MockArgs.__init__, lines 44-64: the attributes set on the instance
MockArgsInit ==
    {"api_key", "server_url", "retry", "curl", "raw", "explain", "onstart",
     "entrypoint", "login", "python_utf8", "lang_utf8", "jupyter_lab",
     "jupyter_dir", "force", "cancel_unavail", "template_hash", "user",
     "args", "bid_price"}

\* create_instance, lines 81-99: the attributes json_blob reads, in order
PayloadAttrs ==
    <<"image", "env", "bid_price", "disk", "label", "extra", "onstart_cmd",
      "login", "python_utf8", "lang_utf8", "jupyter_lab", "jupyter_dir",
      "force", "cancel_unavail", "template_hash", "user">>

VARIABLES
    instance_config,   \* keys of config["instance_config"]
    ask,               \* marketplace: its answer to PUT /asks/{id}/
    plan,              \* marketplace: its answers to GET /instances/{id}
    pc,                \* position in rent_machine / __main__
    search_results,    \* l.150: "unbound" until the search returned a body
    offers,            \* l.153
    machine_id,        \* l.162
    requested,         \* offer id of the creation request sent (l.102-108)
    instance_id,       \* l.139, l.176
    is_running,        \* l.192
    attempts,          \* l.193
    instance_status,   \* l.201: the last response of get_instance
    status_line,       \* l.203: the status of the last "Current status" line
    exc,               \* the exception caught at l.258
    out,               \* what the run printed (the lines that matter)
    createCalls,       \* calls of create_instance
    putRequests,       \* creation requests sent (http_put, l.108)
    getRequests,       \* status fetches sent (http_get, l.116)
    sleeps,            \* calls of sleep(15000), l.226
    cleanupRequests,   \* calls of stop_instance / delete_instance
    exitCode           \* exit status of the process, NoneVal while running

vars == <<instance_config, ask, plan, pc, search_results, offers, machine_id,
          requested, instance_id, is_running, attempts, instance_status,
          status_line, exc, out, createCalls,
          putRequests, getRequests, sleeps, cleanupRequests, exitCode>>

env == <<instance_config, ask, plan>>

\* -------------------------------------------------------------- helpers
\* Python truthiness of an optional integer (None and 0 are falsy)
Truthy(x) == x # NoneVal /\ x # 0

NoMachinesMsg == "No suitable machines found matching criteria"   \* l.156

NoExc == [type |-> "", at |-> "", arg |-> ""]
Raise(type, at, arg) == [type |-> type, at |-> at, arg |-> arg]

Line(tag, id, txt, port) == [tag |-> tag, id |-> id, txt |-> txt, port |-> port]

\* MockArgs whose __getattr__ answers None for an unknown name
MockArgsHasDefault(cfg, name) == TRUE

\* MockArgs attribute lookup, lines 43-70: TRUE iff args.<name> has a value
\* (instance attribute, else __getattr__ falls back to instance_config)
MockArgsHas(cfg, name) == name \in MockArgsInit \/ name \in cfg

\* first attribute of the payload whose lookup raises AttributeError, or ""
RECURSIVE FirstMissing(_, _)
FirstMissing(cfg, i) ==
    IF i > Len(PayloadAttrs) THEN ""
    ELSE IF ~MockArgsHas(cfg, PayloadAttrs[i]) THEN PayloadAttrs[i]
    ELSE FirstMissing(cfg, i + 1)

\* offer lists: an offer is its 'id', NoneVal for a dict without 'id'
RECURSIVE SeqsUpTo(_, _)
SeqsUpTo(S, n) ==
    IF n = 0 THEN {<<>>}
    ELSE LET shorter == SeqsUpTo(S, n - 1)
         IN shorter \cup {Append(s, x) : s \in {t \in shorter : Len(t) = n - 1}, x \in S}

OfferLists == SeqsUpTo(OfferIds \cup {NoneVal}, MaxOffers)

\* what GET /bundles can do: raise, or a JSON body (with or without 'offers')
SearchResponses ==
    {[kind |-> "raise", offers |-> <<>>]} \cup
    {[kind |-> "json", offers |-> l] : l \in OfferLists}

\* what PUT /asks/{id}/ can do: an HTTP error status, a JSON body without an
\* identifier (new_contract missing or 0) and with or without an error field,
\* or a JSON body with an identifier
AskResponses ==
    {[kind |-> "http_error", new_contract |-> NoneVal, error |-> "offer unavailable"]} \cup
    {[kind |-> "json", new_contract |-> c, error |-> e] :
        c \in {NoneVal, 0}, e \in {"", "offer unavailable"}} \cup
    {[kind |-> "json", new_contract |-> c, error |-> ""] : c \in InstanceIds}

\* the status script: fetches before number `at` report an idle status; fetch
\* number `at` does `what`; at = 0: no fetch ever does anything else than
\* report an idle status.  sticky: the fetches after `at` do `what` again
\* (a transient failure that lasts).
Plans ==
    {[at |-> 0, what |-> "idle", sticky |-> FALSE]} \cup
    {[at |-> k, what |-> w, sticky |-> FALSE] :
        k \in 1..max_attempts, w \in {"running", "http_404"}} \cup
    {[at |-> k, what |-> "http_5xx", sticky |-> s] :
        k \in 1..max_attempts, s \in BOOLEAN}

\* what fetch number n does under script p
FetchKind(p, n) ==
    IF p.at = 0 \/ n < p.at THEN "idle"
    ELSE IF n = p.at \/ p.sticky THEN p.what
    ELSE "idle"

NoStatus == [actual_status |-> "", ssh_host |-> "", ssh_port |-> NoneVal]

\* ------------------------------------------------------------------ Init
InitRun ==
    /\ ask \in AskResponses
    /\ plan \in Plans
    /\ pc = "search"
    /\ search_results = "unbound"
    /\ offers = <<>>
    /\ machine_id = NoneVal
    /\ requested = NoneVal
    /\ instance_id = NoneVal
    /\ status_line = ""
    /\ is_running = FALSE
    /\ attempts = 0
    /\ instance_status = NoStatus
    /\ exc = NoExc
    /\ out = <<>>
    /\ createCalls = 0
    /\ putRequests = 0
    /\ getRequests = 0
    /\ sleeps = 0
    /\ cleanupRequests = 0
    /\ exitCode = NoneVal

\* rent_machine() for either content of the module-level config dict
Init ==
    /\ instance_config \in {ShippedInstanceConfig, ExtendedInstanceConfig}
    /\ InitRun

\* the script as shipped
InitShipped ==
    /\ instance_config = ShippedInstanceConfig
    /\ InitRun

\* --------------------------------------------------------------- actions
\* Search without the test of line 155 (an empty list goes on to selection)
SearchNoEmptyTest ==
    /\ pc = "search"
    /\ \E r \in SearchResponses :
         IF r.kind = "raise"
         THEN /\ exc' = Raise("HTTPError", "search", "search failed")
              /\ pc' = "except"
              /\ UNCHANGED <<search_results, offers, out>>
         ELSE /\ search_results' = "dict"
              /\ offers' = r.offers
              /\ exc' = exc
              /\ pc' = "select"
              /\ out' = Append(out, Line("found", Len(r.offers), "", NoneVal))
    /\ UNCHANGED <<env, requested, status_line, machine_id, instance_id, is_running, attempts,
                   instance_status, createCalls, putRequests, getRequests,
                   sleeps, cleanupRequests, exitCode>>

\* lines 146-158: search, extract the offers, fail on an empty list
Search ==
    /\ pc = "search"
    /\ \E r \in SearchResponses :
         IF r.kind = "raise"
         THEN /\ exc' = Raise("HTTPError", "search", "search failed")
              /\ pc' = "except"
              /\ UNCHANGED <<search_results, offers, out>>
         ELSE /\ search_results' = "dict"
              /\ offers' = r.offers
              /\ IF r.offers = <<>>
                 THEN /\ exc' = Raise("Exception", "search", NoMachinesMsg)
                      /\ pc' = "except"
                      /\ out' = out
                 ELSE /\ exc' = exc
                      /\ pc' = "select"
                      /\ out' = Append(out, Line("found", Len(r.offers), "", NoneVal))
    /\ UNCHANGED <<env, requested, status_line, machine_id, instance_id, is_running, attempts,
                   instance_status, createCalls, putRequests, getRequests,
                   sleeps, cleanupRequests, exitCode>>

\* Select that takes the last offer of the list
SelectLast ==
    /\ pc = "select"
    /\ IF offers = <<>>
       THEN /\ exc' = Raise("IndexError", "select", "list index out of range")
            /\ pc' = "except"
            /\ UNCHANGED <<machine_id, out>>
       ELSE IF offers[Len(offers)] = NoneVal
       THEN /\ exc' = Raise("KeyError", "select", "id")
            /\ pc' = "except"
            /\ UNCHANGED <<machine_id, out>>
       ELSE /\ machine_id' = offers[Len(offers)]
            /\ out' = Append(out, Line("selected", offers[Len(offers)], "", NoneVal))
            /\ pc' = "create"
            /\ exc' = exc
    /\ UNCHANGED <<env, requested, status_line, search_results, offers, instance_id, is_running, attempts,
                   instance_status, createCalls, putRequests, getRequests,
                   sleeps, cleanupRequests, exitCode>>

\* lines 161-169: the first offer; offers[0] raises IndexError on an empty
\* list, selected_machine['id'] raises KeyError on an offer without 'id'
Select ==
    /\ pc = "select"
    /\ IF offers = <<>>
       THEN /\ exc' = Raise("IndexError", "select", "list index out of range")
            /\ pc' = "except"
            /\ UNCHANGED <<machine_id, out>>
       ELSE IF offers[1] = NoneVal
       THEN /\ exc' = Raise("KeyError", "select", "id")
            /\ pc' = "except"
            /\ UNCHANGED <<machine_id, out>>
       ELSE /\ machine_id' = offers[1]
            /\ out' = Append(out, Line("selected", offers[1], "", NoneVal))
            /\ pc' = "create"
            /\ exc' = exc
    /\ UNCHANGED <<env, requested, status_line, search_results, offers, instance_id, is_running, attempts,
                   instance_status, createCalls, putRequests, getRequests,
                   sleeps, cleanupRequests, exitCode>>

\* line 175 and create_instance lines 79-102: build json_blob
CreateInstancePayload ==
    /\ pc = "create"
    /\ createCalls' = createCalls + 1
    /\ LET missing == FirstMissing(instance_config, 1)
       IN IF missing # ""
          THEN /\ exc' = Raise("AttributeError", "create", missing)
               /\ pc' = "except"
          ELSE /\ exc' = exc
               /\ pc' = "put"
    /\ UNCHANGED <<env, requested, status_line, search_results, offers, machine_id, instance_id, is_running, attempts,
                   instance_status, out, putRequests, getRequests, sleeps,
                   cleanupRequests, exitCode>>

\* CreateInstancePut that sends the creation request again after an HTTP error
CreateInstancePutRetry ==
    /\ pc = "put"
    /\ putRequests' = putRequests + 1
    /\ requested' = machine_id
    /\ IF ask.kind = "http_error"
       THEN /\ pc' = (IF putRequests < 2 THEN "put" ELSE "except")
            /\ exc' = (IF putRequests < 2 THEN exc
                       ELSE Raise("HTTPError", "create", "http error"))
            /\ UNCHANGED instance_id
       ELSE /\ instance_id' = ask.new_contract
            /\ IF ~Truthy(ask.new_contract)
               THEN /\ exc' = Raise("Exception", "create",
                                    IF ask.error = "" THEN "Unknown error" ELSE ask.error)
                    /\ pc' = "except"
               ELSE /\ exc' = exc
                    /\ pc' = "created"
    /\ UNCHANGED <<env, status_line, search_results, offers, machine_id,
                   is_running, attempts, instance_status, out, createCalls,
                   getRequests, sleeps, cleanupRequests, exitCode>>

\* CreateInstancePut that prints the success line on a good response and
\* leaves the assignment of instance_id for later
CreateInstancePutLogFirst ==
    /\ pc = "put"
    /\ putRequests' = putRequests + 1
    /\ requested' = machine_id
    /\ IF ask.kind = "http_error"
       THEN /\ exc' = Raise("HTTPError", "create", "http error")
            /\ pc' = "except"
            /\ UNCHANGED <<instance_id, out>>
       ELSE IF ~Truthy(ask.new_contract)
       THEN /\ instance_id' = ask.new_contract
            /\ exc' = Raise("Exception", "create",
                            IF ask.error = "" THEN "Unknown error" ELSE ask.error)
            /\ pc' = "except"
            /\ out' = out
       ELSE /\ out' = Append(out, Line("created", ask.new_contract, "", NoneVal))
            /\ exc' = exc
            /\ pc' = "created"
            /\ UNCHANGED instance_id
    /\ UNCHANGED <<env, status_line, search_results, offers, machine_id,
                   is_running, attempts, instance_status, createCalls,
                   getRequests, sleeps, cleanupRequests, exitCode>>

\* create_instance lines 102-110 and rent_machine lines 176-179: the request,
\* the assignment of instance_id and the test of it
CreateInstancePut ==
    /\ pc = "put"
    /\ putRequests' = putRequests + 1
    /\ requested' = machine_id
    /\ IF ask.kind = "http_error"
       THEN /\ exc' = Raise("HTTPError", "create", "http error")
            /\ pc' = "except"
            /\ UNCHANGED instance_id
       ELSE /\ instance_id' = ask.new_contract
            /\ IF ~Truthy(ask.new_contract)
               THEN /\ exc' = Raise("Exception", "create",
                                    IF ask.error = "" THEN "Unknown error" ELSE ask.error)
                    /\ pc' = "except"
               ELSE /\ exc' = exc
                    /\ pc' = "created"
    /\ UNCHANGED <<env, status_line, search_results, offers, machine_id,
                   is_running, attempts, instance_status, out, createCalls,
                   getRequests, sleeps, cleanupRequests, exitCode>>

\* lines 181-193: the success line, then the loop variables
Created ==
    /\ pc = "created"
    /\ out' = Append(out, Line("created", instance_id, "", NoneVal))
    /\ is_running' = FALSE
    /\ attempts' = 0
    /\ pc' = "loop"
    /\ UNCHANGED <<env, requested, status_line, search_results, offers, machine_id,
                   instance_id, instance_status, exc, createCalls, putRequests,
                   getRequests, sleeps, cleanupRequests, exitCode>>

\* LoopHead whose test forgets is_running (while attempts < max_attempts)
LoopHeadNoRunningTest ==
    /\ pc = "loop"
    /\ IF attempts < max_attempts
       THEN /\ attempts' = attempts + 1
            /\ pc' = "fetch"
       ELSE /\ attempts' = attempts
            /\ pc' = "after_loop"
    /\ UNCHANGED <<env, requested, status_line, search_results, offers, machine_id, instance_id, is_running,
                   instance_status, exc, out, createCalls, putRequests,
                   getRequests, sleeps, cleanupRequests, exitCode>>

\* LoopHead with the test on is_running inverted (while is_running and ...)
LoopHeadInverted ==
    /\ pc = "loop"
    /\ IF is_running /\ attempts < max_attempts
       THEN /\ attempts' = attempts + 1
            /\ pc' = "fetch"
       ELSE /\ attempts' = attempts
            /\ pc' = "after_loop"
    /\ UNCHANGED <<env, requested, status_line, search_results, offers, machine_id, instance_id, is_running,
                   instance_status, exc, out, createCalls, putRequests,
                   getRequests, sleeps, cleanupRequests, exitCode>>

\* LoopHead without the increment of l.197
LoopHeadNoIncrement ==
    /\ pc = "loop"
    /\ IF ~is_running /\ attempts < max_attempts
       THEN /\ attempts' = attempts
            /\ pc' = "fetch"
       ELSE /\ attempts' = attempts
            /\ pc' = "after_loop"
    /\ UNCHANGED <<env, requested, status_line, search_results, offers, machine_id, instance_id, is_running,
                   instance_status, exc, out, createCalls, putRequests,
                   getRequests, sleeps, cleanupRequests, exitCode>>

\* lines 196-198: the loop test and the attempt counter
LoopHead ==
    /\ pc = "loop"
    /\ IF ~is_running /\ attempts < max_attempts
       THEN /\ attempts' = attempts + 1
            /\ pc' = "fetch"
       ELSE /\ attempts' = attempts
            /\ pc' = "after_loop"
    /\ UNCHANGED <<env, requested, status_line, search_results, offers, machine_id, instance_id, is_running,
                   instance_status, exc, out, createCalls, putRequests,
                   getRequests, sleeps, cleanupRequests, exitCode>>

\* GetInstance that swallows a failed read and waits for the next attempt
GetInstanceSwallow ==
    /\ pc = "fetch"
    /\ getRequests' = getRequests + 1
    /\ LET kind == FetchKind(plan, getRequests + 1)
       IN IF kind \in {"http_5xx", "http_404"}
          THEN /\ pc' = "sleep"
               /\ UNCHANGED <<instance_status, status_line, is_running, exc, out>>
          ELSE IF kind = "running"
          THEN /\ \E h \in {"h", ""}, p \in {22, NoneVal} :
                    /\ instance_status' = [actual_status |-> "running",
                                           ssh_host |-> h, ssh_port |-> p]
                    /\ out' = Append(out, Line("running", instance_id,
                                               IF h = "" THEN "unknown" ELSE h,
                                               IF p = NoneVal THEN 0 ELSE p))
               /\ status_line' = "running"
               /\ is_running' = TRUE
               /\ pc' = "loop"
               /\ exc' = exc
          ELSE /\ \E s \in IdleStatuses :
                    /\ instance_status' = [actual_status |-> s,
                                           ssh_host |-> "", ssh_port |-> NoneVal]
                    /\ status_line' = s
               /\ pc' = "sleep"
               /\ UNCHANGED <<is_running, exc, out>>
    /\ UNCHANGED <<env, requested, search_results, offers, machine_id, instance_id, attempts,
                   createCalls, putRequests, sleeps, cleanupRequests, exitCode>>

\* GetInstance without the status line of l.203 for a fetch that is not running
GetInstanceNoStatusLine ==
    /\ pc = "fetch"
    /\ getRequests' = getRequests + 1
    /\ LET kind == FetchKind(plan, getRequests + 1)
       IN IF kind \in {"http_5xx", "http_404"}
          THEN /\ exc' = Raise("HTTPError", "poll", kind)
               /\ pc' = "except"
               /\ UNCHANGED <<instance_status, status_line, is_running, out>>
          ELSE IF kind = "running"
          THEN /\ \E h \in {"h", ""}, p \in {22, NoneVal} :
                    /\ instance_status' = [actual_status |-> "running",
                                           ssh_host |-> h, ssh_port |-> p]
                    /\ out' = Append(out, Line("running", instance_id,
                                               IF h = "" THEN "unknown" ELSE h,
                                               IF p = NoneVal THEN 0 ELSE p))
               /\ status_line' = "running"
               /\ is_running' = TRUE
               /\ pc' = "loop"
               /\ exc' = exc
          ELSE /\ \E s \in IdleStatuses :
                    instance_status' = [actual_status |-> s,
                                        ssh_host |-> "", ssh_port |-> NoneVal]
               /\ pc' = "sleep"
               /\ UNCHANGED <<status_line, is_running, exc, out>>
    /\ UNCHANGED <<env, requested, search_results, offers, machine_id, instance_id, attempts,
                   createCalls, putRequests, sleeps, cleanupRequests, exitCode>>

\* GetInstance that gives up when the instance is seen stopped or in error
GetInstanceStopOnTerminal ==
    /\ pc = "fetch"
    /\ getRequests' = getRequests + 1
    /\ LET kind == FetchKind(plan, getRequests + 1)
       IN IF kind \in {"http_5xx", "http_404"}
          THEN /\ exc' = Raise("HTTPError", "poll", kind)
               /\ pc' = "except"
               /\ UNCHANGED <<instance_status, status_line, is_running, out>>
          ELSE IF kind = "running"
          THEN /\ \E h \in {"h", ""}, p \in {22, NoneVal} :
                    /\ instance_status' = [actual_status |-> "running",
                                           ssh_host |-> h, ssh_port |-> p]
                    /\ out' = Append(out, Line("running", instance_id,
                                               IF h = "" THEN "unknown" ELSE h,
                                               IF p = NoneVal THEN 0 ELSE p))
               /\ status_line' = "running"
               /\ is_running' = TRUE
               /\ pc' = "loop"
               /\ exc' = exc
          ELSE /\ \E s \in IdleStatuses :
                    /\ instance_status' = [actual_status |-> s,
                                           ssh_host |-> "", ssh_port |-> NoneVal]
                    /\ status_line' = s
                    /\ pc' = (IF s \in {"stopped", "error"} THEN "except" ELSE "sleep")
                    /\ exc' = (IF s \in {"stopped", "error"}
                               THEN Raise("Exception", "poll", s) ELSE exc)
               /\ UNCHANGED <<is_running, out>>
    /\ UNCHANGED <<env, requested, search_results, offers, machine_id, instance_id, attempts,
                   createCalls, putRequests, sleeps, cleanupRequests, exitCode>>

\* lines 201-225 and get_instance lines 113-118
GetInstance ==
    /\ pc = "fetch"
    /\ getRequests' = getRequests + 1
    /\ LET kind == FetchKind(plan, getRequests + 1)
       IN IF kind \in {"http_5xx", "http_404"}
          THEN /\ exc' = Raise("HTTPError", "poll", kind)
               /\ pc' = "except"
               /\ UNCHANGED <<instance_status, status_line, is_running, out>>
          ELSE IF kind = "running"
          THEN /\ \E h \in {"h", ""}, p \in {22, NoneVal} :
                    /\ instance_status' = [actual_status |-> "running",
                                           ssh_host |-> h, ssh_port |-> p]
                    /\ out' = Append(out, Line("running", instance_id,
                                               IF h = "" THEN "unknown" ELSE h,
                                               IF p = NoneVal THEN 0 ELSE p))
               /\ status_line' = "running"
               /\ is_running' = TRUE
               /\ pc' = "loop"
               /\ exc' = exc
          ELSE /\ \E s \in IdleStatuses :
                    /\ instance_status' = [actual_status |-> s,
                                           ssh_host |-> "", ssh_port |-> NoneVal]
                    /\ status_line' = s
               /\ pc' = "sleep"
               /\ UNCHANGED <<is_running, exc, out>>
    /\ UNCHANGED <<env, requested, search_results, offers, machine_id, instance_id, attempts,
                   createCalls, putRequests, sleeps, cleanupRequests, exitCode>>

\* line 226
Sleep ==
    /\ pc = "sleep"
    /\ sleeps' = sleeps + 1
    /\ pc' = "loop"
    /\ UNCHANGED <<env, requested, status_line, search_results, offers, machine_id, instance_id, is_running, attempts,
                   instance_status, exc, out, createCalls, putRequests,
                   getRequests, cleanupRequests, exitCode>>

\* AfterLoop with the block of lines 234-244 active (stop, then delete)
AfterLoopAutoCleanup ==
    /\ pc = "after_loop"
    /\ out' = (IF is_running THEN out
               ELSE Append(out, Line("not_running", NoneVal, "", NoneVal)))
              \o <<Line("manual_cleanup", instance_id, "", NoneVal)>>
    /\ cleanupRequests' = cleanupRequests + 2
    /\ pc' = "return"
    /\ UNCHANGED <<env, requested, status_line, search_results, offers, machine_id, instance_id, is_running, attempts,
                   instance_status, exc, createCalls, putRequests,
                   getRequests, sleeps, exitCode>>

\* lines 228-255: the timeout notice and the manual cleanup instructions
AfterLoop ==
    /\ pc = "after_loop"
    /\ out' = (IF is_running THEN out
               ELSE Append(out, Line("not_running", NoneVal, "", NoneVal)))
              \o <<Line("manual_cleanup", instance_id, "", NoneVal)>>
    /\ pc' = "return"
    /\ UNCHANGED <<env, requested, status_line, search_results, offers, machine_id, instance_id, is_running, attempts,
                   instance_status, exc, createCalls, putRequests,
                   getRequests, sleeps, cleanupRequests, exitCode>>

\* Except that prints the cleanup instructions only for a running instance
ExceptRunningOnly ==
    /\ pc = "except"
    /\ out' = Append(out, Line("ERROR", NoneVal, exc.arg, NoneVal))
              \o (IF is_running
                  THEN <<Line("error_cleanup", instance_id, "", NoneVal)>>
                  ELSE <<>>)
    /\ pc' = "return"
    /\ UNCHANGED <<env, requested, status_line, search_results, offers, machine_id, instance_id, is_running, attempts,
                   instance_status, exc, createCalls, putRequests,
                   getRequests, sleeps, cleanupRequests, exitCode>>

\* Except without the test of line 262
ExceptAlwaysAdvise ==
    /\ pc = "except"
    /\ out' = Append(out, Line("ERROR", NoneVal, exc.arg, NoneVal))
              \o <<Line("error_cleanup", instance_id, "", NoneVal)>>
    /\ pc' = "return"
    /\ UNCHANGED <<env, requested, status_line, search_results, offers, machine_id, instance_id, is_running, attempts,
                   instance_status, exc, createCalls, putRequests,
                   getRequests, sleeps, cleanupRequests, exitCode>>

\* lines 258-269: the handler
Except ==
    /\ pc = "except"
    /\ out' = Append(out, Line("ERROR", NoneVal, exc.arg, NoneVal))
              \o (IF Truthy(instance_id)
                  THEN <<Line("error_cleanup", instance_id, "", NoneVal)>>
                  ELSE <<>>)
    /\ pc' = "return"
    /\ UNCHANGED <<env, requested, status_line, search_results, offers, machine_id, instance_id, is_running, attempts,
                   instance_status, exc, createCalls, putRequests,
                   getRequests, sleeps, cleanupRequests, exitCode>>

\* lines 273-275: asyncio.run returns, the interpreter exits with status 0
Exit ==
    /\ pc = "return"
    /\ exitCode' = 0
    /\ pc' = "exit"
    /\ UNCHANGED <<env, requested, status_line, search_results, offers, machine_id, instance_id, is_running, attempts,
                   instance_status, exc, out, createCalls, putRequests,
                   getRequests, sleeps, cleanupRequests>>

\* -------------------------------------------------------- specifications
\* the steps of rent_machine and of __main__
Next ==
    \/ Search
    \/ Select
    \/ CreateInstancePayload
    \/ CreateInstancePut
    \/ Created
    \/ LoopHead
    \/ GetInstance
    \/ Sleep
    \/ AfterLoop
    \/ Except
    \/ Exit

Spec == Init /\ [][Next]_vars

\* a run keeps executing: every external call returns or raises, and the
\* interpreter takes the next step of the single thread of control
FairSpec == Spec /\ WF_vars(Next)

\* the steps a run of the script as shipped takes: with the dict as written
\* CreateInstancePayload always raises, the later steps are never enabled
NextShipped ==
    \/ Search
    \/ Select
    \/ CreateInstancePayload
    \/ Except
    \/ Exit

SpecShipped == InitShipped /\ [][NextShipped]_vars

\* ------------------------------------------------------------- type check
TypeOK ==
    /\ instance_config \in {ShippedInstanceConfig, ExtendedInstanceConfig}
    /\ ask \in AskResponses
    /\ plan \in Plans
    /\ search_results \in {"unbound", "dict"}
    /\ pc \in {"search", "select", "create", "put", "created", "loop", "fetch", "sleep",
               "after_loop", "except", "return", "exit"}
    /\ attempts \in 0..max_attempts
    /\ requested \in OfferIds \cup {NoneVal}
    /\ status_line \in IdleStatuses \cup {"", "running"}
    /\ is_running \in BOOLEAN
    /\ exitCode \in {NoneVal, 0}

\* ------------------------------------------------------ what a run reports
Done == pc = "exit"

Printed(tag) == \E i \in DOMAIN out : out[i].tag = tag

\* the identifiers named in the stop/destroy instructions (l.251-254, 264-268)
AdvisedIds ==
    {out[i].id : i \in {j \in DOMAIN out :
                           out[j].tag \in {"manual_cleanup", "error_cleanup"}}}

\* the terminal report of a finished run, read from what it printed
Outcome ==
    IF ~Done THEN "none"
    ELSE IF Printed("ERROR")
    THEN IF exc.arg = NoMachinesMsg THEN "NoOffers"
         ELSE IF exc.at = "create" THEN "ProvisioningFailed"
         ELSE IF exc.at = "poll" THEN "PollError"
         ELSE "Fault"
    ELSE IF Printed("running") THEN "Ready"
    ELSE IF Printed("not_running") THEN "TimedOut"
    ELSE "none"

\* the marketplace answers the creation request with an identifier
AskGivesId == ask.kind = "json" /\ Truthy(ask.new_contract)

\* the creation request was sent and its response carried an identifier
Provisioned == putRequests >= 1 /\ AskGivesId

\* ----------------------------------------------------------------- claims

\* C1: once provisioning returned an identifier, instance_id holds it in
\* every later state, and a finished run (ready, timed out or ended by an
\* exception of a status fetch) has printed stop/destroy instructions that
\* name exactly that identifier.
C1_IdKeptAndAdvised ==
    Provisioned =>
        /\ instance_id = ask.new_contract
        /\ Done => AdvisedIds = {ask.new_contract}

C1_Witness ==
    /\ Done
    /\ Provisioned
    /\ exc.at = "poll"
    /\ getRequests > 1
    /\ AdvisedIds = {instance_id}

C4_EmptySearchShortCircuits ==
    (search_results = "dict" /\ offers = <<>>) =>
        /\ createCalls = 0
        /\ putRequests = 0
        /\ getRequests = 0
        /\ Done => Outcome = "NoOffers"

C4_Witness ==
    /\ Done
    /\ search_results = "dict"
    /\ offers = <<>>
    /\ Outcome = "NoOffers"

\* C5: when provisioning on the first offer returned an identifier and status
\* fetch number k is the first to report running, then from that fetch on
\* exactly k fetches and k - 1 sleeps have been made, and the finished run
\* is Ready for that identifier with the ssh host and port of that fetch.
C5_ReadyAtFirstRunning ==
    (Provisioned /\ plan.what = "running" /\ plan.at >= 1) =>
        /\ machine_id = offers[1]
        /\ is_running =>
              /\ getRequests = plan.at
              /\ sleeps = plan.at - 1
              /\ instance_status.actual_status = "running"
              /\ \E i \in DOMAIN out :
                    /\ out[i].tag = "running"
                    /\ out[i].id = ask.new_contract
                    /\ out[i].txt = (IF instance_status.ssh_host = "" THEN "unknown"
                                     ELSE instance_status.ssh_host)
                    /\ out[i].port = (IF instance_status.ssh_port = NoneVal THEN 0
                                      ELSE instance_status.ssh_port)
        /\ Done =>
              /\ is_running
              /\ Outcome = "Ready"
              /\ AdvisedIds = {ask.new_contract}

\* the scenario of the specification: offers 10 and 11, instance 555, running
\* at the fourth fetch with host h and port 22
C5_Witness ==
    /\ Done
    /\ Outcome = "Ready"
    /\ offers = <<10, 11>>
    /\ machine_id = 10
    /\ instance_id = 555
    /\ plan.at = 4
    /\ getRequests = 4
    /\ sleeps = 3
    /\ instance_status.ssh_host = "h"
    /\ instance_status.ssh_port = 22

\* C6 (as claimed): a Ready run exits with status 0, and a run that ended as
\* no offers, provisioning failed, timed out or poll error exits with a
\* non-zero status.
C6_ExitStatusTellsOutcome ==
    Done =>
        /\ Outcome = "Ready" => exitCode = 0
        /\ Outcome \in {"NoOffers", "ProvisioningFailed", "TimedOut", "PollError"}
               => exitCode # 0

\* C7: a status fetch that fails with a non-transient error (HTTP 404) is the
\* last fetch: polling is left at once, nothing sleeps or fetches after it,
\* and the finished run reports a poll error with the ERROR text and the
\* error cleanup, never the not-running notice of an exhausted budget.
C7_NonTransientEndsPolling ==
    (Provisioned /\ plan.what = "http_404" /\ plan.at >= 1 /\ getRequests >= plan.at) =>
        /\ getRequests = plan.at
        /\ attempts = plan.at
        /\ sleeps = plan.at - 1
        /\ pc \in {"except", "return", "exit"}
        /\ Done =>
              /\ Outcome = "PollError"
              /\ Printed("ERROR")
              /\ ~Printed("not_running")
              /\ ~Printed("manual_cleanup")

C7_Witness ==
    /\ Done
    /\ Outcome = "PollError"
    /\ plan.what = "http_404"
    /\ plan.at = 3
    /\ getRequests = 3
    /\ attempts < max_attempts

\* C8: when the creation request was sent and the marketplace rejected it or
\* answered without an identifier, no status fetch is ever sent, instance_id
\* holds no identifier, and the finished run reports provisioning failed and
\* names no identifier in any cleanup instruction.
C8_ProvisioningFailedNoId ==
    (putRequests >= 1 /\ ~AskGivesId) =>
        /\ getRequests = 0
        /\ ~Truthy(instance_id)
        /\ Done =>
              /\ Outcome = "ProvisioningFailed"
              /\ Printed("ERROR")
              /\ AdvisedIds = {}

C8_Witness ==
    /\ Done
    /\ putRequests = 1
    /\ ask.kind = "http_error"
    /\ Outcome = "ProvisioningFailed"
    /\ AdvisedIds = {}

\* C9: in every run create_instance is called at most once and at most one
\* creation request is sent, whatever the request and the status fetches
\* after it return.
C9_AtMostOneCreation ==
    /\ createCalls <= 1
    /\ putRequests <= 1

C9_Witness ==
    /\ Done
    /\ createCalls = 1
    /\ putRequests = 1
    /\ getRequests = max_attempts

\* C10: no run ever calls stop_instance or delete_instance; a finished run
\* that created an instance only names it in printed instructions.
C10_NoAutomaticCleanup ==
    /\ cleanupRequests = 0
    /\ (Done /\ Provisioned) => AdvisedIds = {instance_id}

C10_Witness ==
    /\ Done
    /\ Outcome = "TimedOut"
    /\ cleanupRequests = 0
    /\ Printed("manual_cleanup")


\* C11: a run whose budget ran out without a fetch reporting running prints
\* the not-running notice and never the running notice; the last status line
\* it printed is the status seen by the final (max_attempts-th) fetch, and
\* its cleanup instructions name the instance identifier.
C11_TimedOutCarriesLastStatus ==
    (Done /\ Provisioned /\ ~Printed("ERROR") /\ ~is_running) =>
        /\ Outcome = "TimedOut"
        /\ Printed("not_running")
        /\ ~Printed("running")
        /\ getRequests = max_attempts
        /\ status_line = instance_status.actual_status
        /\ status_line \in IdleStatuses
        /\ AdvisedIds = {ask.new_contract}

C11_Witness ==
    /\ Done
    /\ Outcome = "TimedOut"
    /\ getRequests = max_attempts
    /\ status_line = "stopped"
    /\ instance_status.actual_status = "stopped"
    /\ AdvisedIds = {556}

\* C12: once an offer is selected it is the first element of the list the
\* search returned, and the offer id of the creation request sent is the id
\* of that first element.
C12_FirstOfferSelectedAndRequested ==
    /\ machine_id # NoneVal => (offers # <<>> /\ machine_id = Head(offers))
    /\ createCalls >= 1 => machine_id = Head(offers)
    /\ putRequests >= 1 => requested = Head(offers)

C12_Witness ==
    /\ Done
    /\ offers = <<11, 10>>
    /\ machine_id = 11
    /\ putRequests = 1
    /\ requested = 11

C14_ShippedPayloadAlwaysRaises ==
    instance_config = ShippedInstanceConfig =>
        /\ createCalls >= 1 =>
              /\ pc \in {"except", "return", "exit"}
              /\ exc = Raise("AttributeError", "create", "label")
        /\ putRequests = 0
        /\ getRequests = 0
        /\ instance_id = NoneVal
        /\ (Done /\ search_results = "dict" /\ offers # <<>>) =>
              /\ Printed("ERROR")
              /\ ~Printed("manual_cleanup")
              /\ AdvisedIds = {}

C14_Witness ==
    /\ Done
    /\ instance_config = ShippedInstanceConfig
    /\ createCalls = 1
    /\ exc.type = "AttributeError"
    /\ exc.arg = "label"
    /\ putRequests = 0

\* the stage a position of rent_machine belongs to: search, select,
\* provision, poll, report, return, exit
StageRank(p) ==
    CASE p = "search" -> 1
      [] p = "select" -> 2
      [] p \in {"create", "put", "created"} -> 3
      [] p \in {"loop", "fetch", "sleep"} -> 4
      [] p \in {"after_loop", "except"} -> 5
      [] p = "return" -> 6
      [] p = "exit" -> 7

CountTag(tag) == Cardinality({i \in DOMAIN out : out[i].tag = tag})

C15_StagesInOrder ==
    /\ createCalls >= 1 =>
          /\ search_results = "dict"
          /\ offers # <<>>
          /\ Printed("selected")
          /\ machine_id = Head(offers)
    /\ putRequests >= 1 => createCalls >= 1
    /\ getRequests >= 1 =>
          /\ Provisioned
          /\ instance_id = ask.new_contract
          /\ Printed("created")
    /\ Printed("manual_cleanup") =>
          /\ pc \in {"return", "exit"}
          /\ is_running \/ attempts = max_attempts
    /\ Printed("ERROR") => pc \in {"return", "exit"}
    /\ CountTag("found") <= 1
    /\ CountTag("selected") <= 1
    /\ CountTag("created") <= 1
    /\ CountTag("manual_cleanup") + CountTag("ERROR") <= 1

\* C15: the stages run in order: a creation is attempted only after the
\* search returned offers and the first was selected, a status fetch is sent
\* only after provisioning returned an identifier, the final report is
\* printed only after polling ended, each stage's line is printed at most
\* once, and no step goes back to an earlier stage (only the steps of
\* polling repeat).
C15_StrictStageOrder ==
    /\ []C15_StagesInOrder
    /\ [][StageRank(pc') >= StageRank(pc)]_vars

C15_Witness ==
    /\ Done
    /\ CountTag("found") = 1
    /\ CountTag("selected") = 1
    /\ CountTag("created") = 1
    /\ CountTag("running") = 1
    /\ CountTag("manual_cleanup") = 1
    /\ getRequests = 2

\* a finished run printed exactly one terminal report, of one kind
OneTerminalReport ==
    Done =>
        /\ CountTag("manual_cleanup") + CountTag("ERROR") = 1
        /\ CountTag("not_running") <= 1
        /\ CountTag("running") <= 1
        /\ ~(Printed("running") /\ Printed("not_running"))
        /\ Outcome \in {"Ready", "NoOffers", "ProvisioningFailed", "TimedOut",
                        "PollError", "Fault"}

\* C16: every run whose external calls return or raise reaches the exit,
\* having printed exactly one terminal report; attempts only grows, by one
\* per iteration, and neither attempts nor the number of status fetches
\* exceeds max_attempts.
C16_TerminatesWithOneReport ==
    /\ <>Done
    /\ []OneTerminalReport
    /\ [](attempts <= max_attempts /\ getRequests <= max_attempts /\ getRequests <= attempts)
    /\ [][attempts' = attempts \/ (pc = "loop" /\ attempts' = attempts + 1)]_vars

C16_Witness ==
    /\ Done
    /\ attempts = max_attempts
    /\ getRequests = max_attempts
    /\ CountTag("manual_cleanup") = 1
    /\ CountTag("ERROR") = 0
    /\ ~is_running

\* C17: the step that receives a creation response with an identifier stores
\* it in instance_id and prints and fetches nothing; in the state that
\* follows, before the success line, instance_id already holds it; the
\* success line is printed only with the identifier already stored; and a
\* run that then ends with ERROR names the identifier in its cleanup.
C17_IdStoredBeforeAnythingElse ==
    /\ [][(putRequests' = putRequests + 1 /\ AskGivesId) =>
             /\ instance_id' = ask.new_contract
             /\ out' = out
             /\ getRequests' = getRequests]_vars
    /\ [](pc = "created" =>
             /\ instance_id = ask.new_contract
             /\ ~Printed("created")
             /\ getRequests = 0)
    /\ [][CountTag("created")' > CountTag("created") =>
             /\ Truthy(instance_id)
             /\ instance_id = ask.new_contract]_vars
    /\ []((Done /\ Printed("created") /\ Printed("ERROR")) =>
             AdvisedIds = {ask.new_contract})

C17_Witness ==
    /\ pc = "created"
    /\ putRequests = 1
    /\ instance_id = 555
    /\ ~Printed("created")
    /\ out[Len(out)].tag = "selected"

\* C18: a status fetch that reports anything but running (loading, stopped,
\* error, or no actual_status field) is followed by the sleep; polling goes
\* on after it and is left only when max_attempts fetches were made, each
\* followed by a sleep, and such a run ends as timed out.
C18_EveryOtherStatusWaits ==
    /\ [][(pc = "fetch" /\ FetchKind(plan, getRequests + 1) = "idle") =>
             /\ instance_status'.actual_status \in IdleStatuses
             /\ pc' = "sleep"
             /\ ~is_running']_vars
    /\ []((Provisioned /\ getRequests >= 1 /\ FetchKind(plan, getRequests) = "idle") =>
             /\ ~is_running
             /\ instance_status.actual_status \in IdleStatuses
             /\ pc \in {"sleep", "loop", "fetch", "after_loop", "return", "exit"}
             /\ pc \in {"after_loop", "return", "exit"} =>
                   /\ getRequests = max_attempts
                   /\ sleeps = max_attempts
             /\ Done => Outcome = "TimedOut")

C18_Witness ==
    /\ pc = "fetch"
    /\ attempts = 3
    /\ getRequests = 2
    /\ sleeps = 2
    /\ instance_status.actual_status = "error"

====
